---- MODULE Spec2Model ----
(***************************************************************************)
(* Model of home.py: the Project Ignis CardScripts -> MongoDB updater.     *)
(*                                                                         *)
(* A Lua text is a sequence of lines.  A line is a record                  *)
(*   [kind, name, params, text]                                            *)
(* kind "comment": a line whose stripped form is "--" followed by text;    *)
(* kind "blank"  : a line that strips to "";                               *)
(* kind "code"   : any other line, text is the token it holds;             *)
(* kind "func"   : a line "function s.<name>(<params>) <text> end".        *)
(* A file name is a sequence of one-character strings.                     *)
(***************************************************************************)
EXTENDS Integers, Sequences, FiniteSets, TLC

(* ------------------------------ bounds --------------------------------- *)
MaxLen == 3        \* longest Lua text given to extract_names on its own
MaxRuns == 2       \* presses of the update button
MaxExt == 1        \* writes of the external client

(* ------------------------------ lines ---------------------------------- *)
Comment(t) == [kind |-> "comment", name |-> "", params |-> <<>>, text |-> t]
Blank == [kind |-> "blank", name |-> "", params |-> <<>>, text |-> ""]
Code(t) == [kind |-> "code", name |-> "", params |-> <<>>, text |-> t]
Func(n, p, b) == [kind |-> "func", name |-> n, params |-> p, text |-> b]

(* ---------------------------- extract_names ---------------------------- *)
\* One pass of the for loop of extract_names from line i on, with the values
\* jp and en held so far.  A comment line fills jp while jp is falsy, else
\* fills en and breaks; a blank line and any other line both `continue`.
RECURSIVE NamesLoop(_, _, _, _)
NamesLoop(lua, i, jp, en) ==
    IF i > Len(lua) THEN <<jp, en>>
    ELSE IF lua[i].kind = "comment"
         THEN IF jp = "" THEN NamesLoop(lua, i + 1, lua[i].text, en)
              ELSE IF en = "" THEN <<jp, lua[i].text>>
              ELSE NamesLoop(lua, i + 1, jp, en)
         ELSE NamesLoop(lua, i + 1, jp, en)

extract_names(lua) == NamesLoop(lua, 1, "", "")

(* -------------------------- extract_functions -------------------------- *)
\* split_params: the parameter tokens, trimmed, empty ones dropped.  A func
\* line carries its parameter list already split.
split_params(p) == p

FuncLines(lua) == {i \in 1..Len(lua) : lua[i].kind = "func"}

\* result[fname] = {...} for every match in order: the last match of a name
\* is the one that stays.
extract_functions(lua) ==
    [n \in {lua[i].name : i \in FuncLines(lua)} |->
        LET last == CHOOSE i \in FuncLines(lua) :
                       /\ lua[i].name = n
                       /\ \A j \in FuncLines(lua) : lua[j].name = n => j <= i
        IN [parameters |-> split_params(lua[last].params), body |-> lua[last].text]]

(* ------------------------------ detect_meta ---------------------------- *)
\* The tokens a text holds: every pattern is searched in the whole text.
Tokens(lua) == {lua[i].text : i \in {j \in 1..Len(lua) : lua[j].kind = "code"}}

CategoryTokens == {"CATEGORY_DRAW", "CATEGORY_DESTROY"}

detect_meta(lua) ==
    [categories |-> Tokens(lua) \cap CategoryTokens,
     has_indestructible |-> "EFFECT_INDESTRUCTABLE_EFFECT" \in Tokens(lua),
     has_SetCountLimit |-> ".SetCountLimit(1,id)" \in Tokens(lua)]

(* ------------------------------ file names ----------------------------- *)
Digits == {"0", "1", "2", "3", "4", "5", "6", "7", "8", "9"}
DigitVal(c) == CASE c = "0" -> 0 [] c = "1" -> 1 [] c = "2" -> 2 [] c = "3" -> 3
                 [] c = "4" -> 4 [] c = "5" -> 5 [] c = "6" -> 6 [] c = "7" -> 7
                 [] c = "8" -> 8 [] c = "9" -> 9

DotLua == <<".", "l", "u", "a">>

\* f.endswith(".lua")
EndsWithLua(f) ==
    /\ Len(f) >= 4
    /\ SubSeq(f, Len(f) - 3, Len(f)) = DotLua

\* Number of digits of f from position i on.
RECURSIVE DigitRun(_, _)
DigitRun(f, i) ==
    IF i <= Len(f) /\ f[i] \in Digits THEN 1 + DigitRun(f, i + 1) ELSE 0

\* re.match(r"c(\d+)\.lua", fname): anchored at the start only.
MatchesId(f) ==
    /\ Len(f) >= 1
    /\ f[1] = "c"
    /\ DigitRun(f, 2) >= 1
    /\ Len(f) >= 1 + DigitRun(f, 2) + 4
    /\ SubSeq(f, 2 + DigitRun(f, 2), 5 + DigitRun(f, 2)) = DotLua

\* int(s) of a digit string.
RECURSIVE IntOf(_)
IntOf(s) == IF s = <<>> THEN 0
            ELSE 10 * IntOf(SubSeq(s, 1, Len(s) - 1)) + DigitVal(s[Len(s)])

\* int(m.group(1))
CardId(f) == IntOf(SubSeq(f, 2, 1 + DigitRun(f, 2)))

\* Code point order of the characters that occur in the listing.
Ord(c) == CASE c = "." -> 46 [] c \in Digits -> 48 + DigitVal(c)
            [] c = "a" -> 97 [] c = "c" -> 99 [] c = "d" -> 100 [] c = "l" -> 108
            [] c = "m" -> 109 [] c = "u" -> 117 [] c = "x" -> 120

\* a < b for strings
RECURSIVE StrLess(_, _)
StrLess(a, b) ==
    IF a = <<>> THEN b # <<>>
    ELSE IF b = <<>> THEN FALSE
    ELSE IF Ord(Head(a)) # Ord(Head(b)) THEN Ord(Head(a)) < Ord(Head(b))
    ELSE StrLess(Tail(a), Tail(b))

\* sorted(S)
RECURSIVE sorted(_)
sorted(S) ==
    IF S = {} THEN <<>>
    ELSE LET m == CHOOSE x \in S : \A y \in S \ {x} : StrLess(x, y)
         IN <<m>> \o sorted(S \ {m})


(* ------------------------------ the listing ---------------------------- *)
c1_lua == <<"c", "1", ".", "l", "u", "a">>
c2_lua == <<"c", "2", ".", "l", "u", "a">>
x_lua == <<"x", ".", "l", "u", "a">>
a_md == <<"a", ".", "m", "d">>

\* os.listdir(official_folder)
Listing == {c1_lua, c2_lua, x_lua, a_md}

Params == <<"e", "tp">>

\* Versions of the script of card 1 that a clone or pull can bring.
TextA == <<Comment("JP"), Comment("EN"), Func("target", Params, "b1"),
           Func("operation", Params, "b1")>>
\* TextA with the body of s.target changed
TextB == <<Comment("JP"), Comment("EN"), Func("target", Params, "b2"),
           Func("operation", Params, "b1")>>
\* one leading comment, a category token, a trailing comment, no function
TextC == <<Comment("JP"), Code("CATEGORY_DRAW"), Comment("note")>>

Card1Texts == {TextA, TextB, TextC}
Card2Text == <<Comment("JP2"), Blank, Code("EFFECT_INDESTRUCTABLE_EFFECT")>>
OtherText == <<Code("x=1")>>

\* The working trees a clone or pull can leave.
Trees == {[f \in Listing |-> IF f = c1_lua THEN t
                             ELSE IF f = c2_lua THEN Card2Text ELSE OtherText] :
          t \in Card1Texts}

(* ------------------------------ documents ------------------------------ *)
\* A document is a function from the names of its fields to their values.
\* The value of the field functions is [isdict, entries]: a sub-document with
\* its entries, or a value that is no sub-document (null).
Dict(m) == [isdict |-> TRUE, entries |-> m]
NoEntries == [n \in {} |-> [parameters |-> <<>>, body |-> ""]]
Null == [isdict |-> FALSE, entries |-> NoEntries]

ScalarKeys == <<"name_jp", "name_en", "lua_raw">>
OwnedKeys == {"name_jp", "name_en", "lua_raw", "functions", "meta"}

\* candidate_doc
candidate_doc(id, text) ==
    [id |-> id,
     name_jp |-> extract_names(text)[1],
     name_en |-> extract_names(text)[2],
     lua_raw |-> text,
     functions |-> extract_functions(text),
     meta |-> detect_meta(text)]

\* collection.find_one({"id": card_id}) is None
NotFound(st, id) == id \notin DOMAIN st

\* The function names whose extracted entry differs from the stored one;
\* a name the stored sub-document lacks differs.
ChangedFuncs(ex, new, cand) ==
    LET existing_funcs == IF ~new /\ "functions" \in DOMAIN ex
                          THEN ex["functions"].entries ELSE NoEntries
    IN {n \in DOMAIN cand.functions :
           \/ n \notin DOMAIN existing_funcs
           \/ existing_funcs[n] # cand.functions[n]}

\* existing_funcs.get(fname) on a value that has no get: raised when the
\* stored functions field is no sub-document and the loop body runs.
CompareRaises(ex, new, cand) ==
    /\ ~new
    /\ "functions" \in DOMAIN ex
    /\ ~ex["functions"].isdict
    /\ DOMAIN cand.functions # {}

\* update_fields with every scalar field in it, changed or not
UpdateKeysAll(ex, new, cand) ==
    {ScalarKeys[i] : i \in 1..3}
    \cup (IF ChangedFuncs(ex, new, cand) # {} THEN {"functions"} ELSE {})
    \cup (IF new \/ "meta" \notin DOMAIN ex \/ ex["meta"] # cand.meta
          THEN {"meta"} ELSE {})

\* The keys of update_fields.
UpdateKeys(ex, new, cand) ==
    {k \in {ScalarKeys[i] : i \in 1..3} : new \/ k \notin DOMAIN ex \/ ex[k] # cand[k]}
    \cup (IF ChangedFuncs(ex, new, cand) # {} THEN {"functions"} ELSE {})
    \cup (IF new \/ "meta" \notin DOMAIN ex \/ ex["meta"] # cand.meta
          THEN {"meta"} ELSE {})

\* update_fields
BuildUpdate(ex, new, cand) ==
    [k \in UpdateKeys(ex, new, cand) |->
        IF k = "functions"
        THEN Dict([n \in ChangedFuncs(ex, new, cand) |-> cand.functions[n]])
        ELSE cand[k]]

\* {"$set": fields} applied to a document
SetFields(doc, fields) ==
    [k \in DOMAIN doc \cup DOMAIN fields |->
        IF k \in DOMAIN fields THEN fields[k] ELSE doc[k]]

\* update_one as a replacement of the whole document
replace_one(st, id, fields) ==
    [i \in DOMAIN st \cup {id} |->
        IF i = id THEN SetFields([f \in {"id"} |-> id], fields) ELSE st[i]]

\* $set that leaves out no key of a document: every key of fields is set, and
\* every other key the document has is removed when it is an owned one
SetOwned(doc, fields) ==
    [k \in (DOMAIN doc \ OwnedKeys) \cup DOMAIN fields |->
        IF k \in DOMAIN fields THEN fields[k] ELSE doc[k]]

\* update_one that rewrites all the extractor's fields of the document
rewrite_one(st, id, fields) ==
    [i \in DOMAIN st \cup {id} |->
        IF i = id
        THEN SetOwned(IF id \in DOMAIN st THEN st[id] ELSE [f \in {"id"} |-> id],
                      fields)
        ELSE st[i]]

\* collection.update_one({"id": id}, {"$set": fields}, upsert=True)
update_one(st, id, fields) ==
    [i \in DOMAIN st \cup {id} |->
        IF i = id
        THEN SetFields(IF id \in DOMAIN st THEN st[id] ELSE [f \in {"id"} |-> id],
                       fields)
        ELSE st[i]]

(* ------------------------------- state --------------------------------- *)
VARIABLES
    files,          \* the working tree: content of every entry of official/
    store,          \* the collection: id -> document, for the ids it holds
    pc,             \* "idle", "read", "find", "write", "done" or "aborted"
    run,            \* presses of the button so far
    lua_files,      \* sorted(lua_files) of the running batch
    idx,            \* enumerate index of the file at hand
    lua,            \* text read from the file at hand
    card_id,
    existing,       \* result of find_one; the empty document stands for None
    is_new,
    update_fields,
    inserted, updated, skipped, errors,
    log_lines,      \* [tag, file] per appended line
    calls,          \* store calls issued for the file at hand: [find, update]
    writes,         \* update_one calls of the running batch that returned
    ext,            \* writes of the external client so far
    raced,          \* fields the external client wrote to the document of
                    \* card_id since the last find_one returned, with values
    lost,           \* the raced fields the last update_one set to another value
    steady,         \* the previous batch ran on these same files, and nothing
                    \* has failed and no external write was made since it began
    nm_in, nm_out   \* input and result of extract_names applied on its own

pvars == <<files, store, pc, run, lua_files, idx, lua, card_id, existing, is_new,
           update_fields, inserted, updated, skipped, errors, log_lines, calls,
           writes, ext, raced, lost, steady>>
nvars == <<nm_in, nm_out>>
vars == <<pvars, nvars>>

None == [f \in {} |-> 0]
NoCalls == [find |-> 0, update |-> 0]
NoRace == [f \in {} |-> 0]

\* What the collection can hold when the application connects: nothing, a
\* document of card 1 that another pipeline wrote, or the document an earlier
\* batch wrote for TextA (with a price added since).
StoredA == SetFields([f \in {"id", "price"} |-> IF f = "id" THEN 1 ELSE 10],
                     BuildUpdate(None, TRUE, candidate_doc(1, TextA)))
InitialStores == {[i \in {} |-> None],
                  [i \in {1} |-> [f \in {"id", "price"} |-> IF f = "id" THEN 1 ELSE 10]],
                  [i \in {1} |-> StoredA]}

PipelineIdle ==
    /\ pc = "idle"
    /\ run = 0
    /\ lua_files = <<>>
    /\ idx = 0
    /\ lua = <<>>
    /\ card_id = 0
    /\ existing = None
    /\ is_new = FALSE
    /\ update_fields = None
    /\ inserted = 0 /\ updated = 0 /\ skipped = 0 /\ errors = 0
    /\ log_lines = <<>>
    /\ calls = NoCalls
    /\ writes = 0
    /\ ext = 0
    /\ raced = NoRace
    /\ lost = {}
    /\ steady = FALSE

Init ==
    /\ files \in Trees
    /\ store \in InitialStores
    /\ PipelineIdle
    /\ nm_in = <<>>
    /\ nm_out = <<>>

total == Len(lua_files)
fname == lua_files[idx]

\* End of one pass of the loop body: the next file, or the end of the batch.
Advance ==
    IF idx < total
    THEN pc' = "read" /\ idx' = idx + 1
    ELSE pc' = "done" /\ idx' = idx

Log(tag) == log_lines' = Append(log_lines, [tag |-> tag, file |-> fname])

(* ------------------------------ the batch ------------------------------ *)
\* The button is pressed: clone or pull, list official/, reset the counters.
StartRun ==
    /\ pc \in {"idle", "done", "aborted"}
    /\ run < MaxRuns
    /\ files' \in Trees
    /\ steady' = (pc = "done" /\ files' = files /\ errors = 0
                  /\ ext = 0)
    /\ run' = run + 1
    /\ lua_files' = sorted({f \in Listing : EndsWithLua(f)})
    /\ idx' = 1
    /\ pc' = "read"
    /\ inserted' = 0 /\ updated' = 0 /\ skipped' = 0 /\ errors' = 0
    /\ log_lines' = <<>>
    /\ writes' = 0
    /\ calls' = NoCalls
    /\ UNCHANGED <<store, lua, card_id, existing, is_new, update_fields, ext,
                   raced, lost>>

\* open(fpath).read() raises.
ReadError ==
    /\ pc = "read"
    /\ errors' = errors + 1
    /\ Log("ERROR reading")
    /\ Advance
    /\ calls' = NoCalls
    /\ steady' = FALSE
    /\ UNCHANGED <<files, store, run, lua_files, lua, card_id, existing, is_new,
                   update_fields, inserted, updated, skipped, writes, ext, raced,
                   lost>>

\* The file is read and its name does not match the id pattern.
SkipNoId ==
    /\ pc = "read"
    /\ ~MatchesId(fname)
    /\ lua' = files[fname]
    /\ skipped' = skipped + 1
    /\ Log("SKIP (no id)")
    /\ Advance
    /\ calls' = NoCalls
    /\ UNCHANGED <<files, store, run, lua_files, card_id, existing, is_new,
                   update_fields, inserted, updated, errors, writes, ext, raced,
                   lost, steady>>

\* The file is read and its name gives the card id.
ReadFile ==
    /\ pc = "read"
    /\ MatchesId(fname)
    /\ lua' = files[fname]
    /\ card_id' = CardId(fname)
    /\ pc' = "find"
    /\ calls' = NoCalls
    /\ UNCHANGED <<files, store, run, lua_files, idx, existing, is_new,
                   update_fields, inserted, updated, skipped, errors, log_lines,
                   writes, ext, raced, lost, steady>>

\* find_one raises and the handler does not count it
FindErrorUncounted ==
    /\ pc = "find"
    /\ calls' = [calls EXCEPT !.find = 1]
    /\ Log("ERROR DB find")
    /\ Advance
    /\ steady' = FALSE
    /\ UNCHANGED <<files, store, run, lua_files, lua, card_id, existing, is_new,
                   update_fields, inserted, updated, skipped, errors, writes, ext,
                   raced, lost>>

\* find_one raises.
FindError ==
    /\ pc = "find"
    /\ calls' = [calls EXCEPT !.find = 1]
    /\ errors' = errors + 1
    /\ Log("ERROR DB find")
    /\ Advance
    /\ steady' = FALSE
    /\ UNCHANGED <<files, store, run, lua_files, lua, card_id, existing, is_new,
                   update_fields, inserted, updated, skipped, writes, ext, raced,
                   lost>>

\* find_one returns and update_fields is built from what it returned.
FindOne ==
    /\ pc = "find"
    /\ calls' = [calls EXCEPT !.find = 1]
    /\ existing' = IF NotFound(store, card_id) THEN None ELSE store[card_id]
    /\ is_new' = NotFound(store, card_id)
    /\ raced' = NoRace
    /\ lost' = {}
    /\ IF CompareRaises(existing', is_new', candidate_doc(card_id, lua))
       THEN \* the exception reaches the handler around the whole batch
            /\ pc' = "aborted"
            /\ steady' = FALSE
            /\ UNCHANGED update_fields
       ELSE /\ pc' = "write"
            /\ update_fields' = BuildUpdate(existing', is_new',
                                            candidate_doc(card_id, lua))
            /\ UNCHANGED steady
    /\ UNCHANGED <<files, store, run, lua_files, idx, lua, card_id, inserted,
                   updated, skipped, errors, log_lines, writes, ext>>

\* update_one returns and the pass counts an update whatever is_new says
UpdateOneAsUpdated ==
    /\ pc = "write"
    /\ DOMAIN update_fields # {}
    /\ calls' = [calls EXCEPT !.update = 1]
    /\ store' = update_one(store, card_id, update_fields)
    /\ writes' = writes + 1
    /\ lost' = {f \in DOMAIN raced \cap DOMAIN update_fields :
                   update_fields[f] # raced[f]}
    /\ updated' = updated + 1 /\ Log("UPDATED") /\ UNCHANGED inserted
    /\ Advance
    /\ UNCHANGED <<files, run, lua_files, lua, card_id, existing, is_new,
                   update_fields, skipped, errors, ext, raced, steady>>

\* update_fields is not empty and update_one returns.
UpdateOne ==
    /\ pc = "write"
    /\ DOMAIN update_fields # {}
    /\ calls' = [calls EXCEPT !.update = 1]
    /\ store' = update_one(store, card_id, update_fields)
    /\ writes' = writes + 1
    /\ lost' = {f \in DOMAIN raced \cap DOMAIN update_fields :
                   update_fields[f] # raced[f]}
    /\ IF is_new
       THEN inserted' = inserted + 1 /\ Log("INSERTED") /\ UNCHANGED updated
       ELSE updated' = updated + 1 /\ Log("UPDATED") /\ UNCHANGED inserted
    /\ Advance
    /\ UNCHANGED <<files, run, lua_files, lua, card_id, existing, is_new,
                   update_fields, skipped, errors, ext, raced, steady>>

\* update_fields is not empty and update_one raises.
UpdateError ==
    /\ pc = "write"
    /\ DOMAIN update_fields # {}
    /\ calls' = [calls EXCEPT !.update = 1]
    /\ errors' = errors + 1
    /\ Log("ERROR DB upsert")
    /\ Advance
    /\ steady' = FALSE
    /\ UNCHANGED <<files, store, run, lua_files, lua, card_id, existing, is_new,
                   update_fields, inserted, updated, skipped, writes, ext, raced,
                   lost>>

\* update_fields is empty: nothing is written.
SkipNoChanges ==
    /\ pc = "write"
    /\ DOMAIN update_fields = {}
    /\ skipped' = skipped + 1
    /\ Log("SKIPPED (no changes)")
    /\ Advance
    /\ UNCHANGED <<files, store, run, lua_files, lua, card_id, existing, is_new,
                   update_fields, inserted, updated, errors, calls, writes, ext,
                   raced, lost, steady>>

(* --------------------------- another client ---------------------------- *)
\* What another client of the collection writes with $set and upsert.
ExtValues == [price |-> {20}, name_en |-> {"EXT"}, functions |-> {Null}]

\* update_one({"id": id}, {"$set": {k: v}}, upsert=True) of that client
ext_set(st, id, k, v) ==
    [i \in DOMAIN st \cup {id} |->
        SetFields(IF i \in DOMAIN st THEN st[i] ELSE [f \in {"id"} |-> i],
                  IF i = id THEN [f \in {k} |-> v] ELSE None)]

ExternalWrite ==
    /\ ext < MaxExt
    /\ \E id \in {CardId(f) : f \in {g \in Listing : MatchesId(g)}} :
       \E k \in DOMAIN ExtValues :
       \E v \in ExtValues[k] :
          /\ store' = ext_set(store, id, k, v)
          /\ raced' = IF pc = "write" /\ id = card_id
                      THEN [f \in DOMAIN raced \cup {k} |-> IF f = k THEN v ELSE raced[f]]
                      ELSE raced
    /\ ext' = ext + 1
    /\ steady' = FALSE
    /\ UNCHANGED <<files, pc, run, lua_files, idx, lua, card_id, existing, is_new,
                   update_fields, inserted, updated, skipped, errors, log_lines,
                   calls, writes, lost>>

Next ==
    \/ (StartRun /\ UNCHANGED nvars)
    \/ (ReadError /\ UNCHANGED nvars)
    \/ (SkipNoId /\ UNCHANGED nvars)
    \/ (ReadFile /\ UNCHANGED nvars)
    \/ (FindError /\ UNCHANGED nvars)
    \/ (FindOne /\ UNCHANGED nvars)
    \/ (UpdateOne /\ UNCHANGED nvars)
    \/ (UpdateError /\ UNCHANGED nvars)
    \/ (SkipNoChanges /\ UNCHANGED nvars)
    \/ (ExternalWrite /\ UNCHANGED nvars)

Spec == Init /\ [][Next]_vars


(* ----------------------- extract_names on its own ---------------------- *)
\* The lines a text given to extract_names is made of: "--A", "--B", "--",
\* a blank line, a line of code.
NameLines == {Comment("A"), Comment("B"), Comment(""), Blank, Code("x=1")}

RECURSIVE TextsOfLen(_)
TextsOfLen(n) == IF n = 0 THEN {<<>>}
                 ELSE {Append(t, l) : t \in TextsOfLen(n - 1), l \in NameLines}

NameTexts == UNION {TextsOfLen(n) : n \in 0..MaxLen}

NamesInit ==
    /\ files = [f \in Listing |-> OtherText]
    /\ store = [i \in {} |-> None]
    /\ PipelineIdle
    /\ nm_in \in NameTexts
    /\ nm_out = <<>>

\* name_jp, name_en = extract_names(lua)
ApplyExtractNames ==
    /\ nm_out = <<>>
    /\ nm_out' = extract_names(nm_in)
    /\ UNCHANGED nm_in

\* another text is handed in
NextText ==
    /\ nm_out # <<>>
    /\ nm_in' \in NameTexts
    /\ nm_out' = <<>>

NamesNext ==
    \/ (ApplyExtractNames /\ UNCHANGED pvars)
    \/ (NextText /\ UNCHANGED pvars)

NamesSpec == NamesInit /\ [][NamesNext]_vars


(* ------------------------------ properties ----------------------------- *)
\* The pass of the loop that ended last, and what it logged.
PassEnded == pc \in {"read", "done"} /\ Len(log_lines) >= 1
LastLine == log_lines[Len(log_lines)]
Candidate == candidate_doc(card_id, lua)

\* C2: a field of a stored document that is none of name_jp, name_en,
\* lua_raw, functions, meta keeps its value through every step that is not a
\* write of the external client, wherever those writes fall between the
\* find_one and the update_one; no document disappears.
C2_FieldPreserved ==
    [][ext' = ext =>
         \A id \in DOMAIN store :
            /\ id \in DOMAIN store'
            /\ \A k \in DOMAIN store[id] \ OwnedKeys :
                  /\ k \in DOMAIN store'[id]
                  /\ store'[id][k] = store[id][k]]_vars

\* update_one has returned for a document whose price the external client
\* wrote after the find_one, and the price is still the one it wrote.
C2_Witness ==
    /\ PassEnded
    /\ LastLine.tag \in {"INSERTED", "UPDATED"}
    /\ "price" \in DOMAIN raced
    /\ "price" \in DOMAIN store[card_id]
    /\ store[card_id]["price"] = raced["price"]
    /\ "lua_raw" \in DOMAIN store[card_id]

\* C4: with a document found, update_fields holds a scalar field exactly when
\* the extracted value differs from the found one and holds meta exactly when
\* the extracted meta record differs from the found one; with no document
\* found it holds all three scalar fields; what it holds for them is the
\* extracted value, meta as one whole record.
C4_MinimalUpdate ==
    pc = "write" =>
       /\ \A i \in 1..3 :
             ScalarKeys[i] \in DOMAIN update_fields <=>
                \/ is_new
                \/ ScalarKeys[i] \notin DOMAIN existing
                \/ existing[ScalarKeys[i]] # Candidate[ScalarKeys[i]]
       /\ ~is_new =>
             ("meta" \in DOMAIN update_fields <=>
                 \/ "meta" \notin DOMAIN existing
                 \/ existing["meta"] # Candidate.meta)
       /\ \A k \in DOMAIN update_fields \ {"functions"} :
             update_fields[k] = Candidate[k]

\* A document was found, the text changed in part: lua_raw is to be written,
\* the names and meta are not.
C4_Witness ==
    /\ pc = "write"
    /\ ~is_new
    /\ "lua_raw" \in DOMAIN update_fields
    /\ "name_jp" \notin DOMAIN update_fields
    /\ "name_en" \notin DOMAIN update_fields
    /\ "meta" \notin DOMAIN update_fields
    /\ "meta" \in DOMAIN existing

\* C9: in a running or completed batch the four counters add up to the
\* number of files whose pass of the loop has ended, and to the number of
\* candidate files when the batch has completed.
C9_Accounting ==
    /\ pc \in {"read", "find", "write"} =>
          inserted + updated + skipped + errors = idx - 1
    /\ pc = "done" =>
          /\ idx = total
          /\ inserted + updated + skipped + errors = total
    /\ pc \in {"read", "find", "write", "done"} =>
          inserted + updated + skipped + errors = Len(log_lines)

\* A batch has completed with a write, a skip and an error among its files.
C9_Witness ==
    /\ pc = "done"
    /\ inserted + updated >= 1
    /\ skipped >= 1
    /\ errors >= 1

\* C10: an update_one of the extractor changes, in the collection as it is
\* when the call is made (external writes since the find_one included), only
\* the fields named in update_fields of the document of card_id.
C10_LossLimited ==
    [][writes' = writes + 1 =>
         \A id \in DOMAIN store :
            \A k \in DOMAIN store[id] :
               (id # card_id \/ k \notin DOMAIN update_fields) =>
                  /\ id \in DOMAIN store'
                  /\ k \in DOMAIN store'[id]
                  /\ store'[id][k] = store[id][k]]_vars

\* The external client wrote name_en of the document of card_id after the
\* find_one, and the update_one computed from the stale read has replaced
\* what it wrote.
C10_Witness ==
    /\ PassEnded
    /\ LastLine.tag \in {"INSERTED", "UPDATED"}
    /\ "name_en" \in lost
    /\ raced["name_en"] = "EXT"
    /\ store[card_id]["name_en"] # "EXT"


\* C1: when a batch has completed on the files the previous batch completed
\* on, with no failure and no external write since the previous batch began,
\* it has made no store write and every file with a valid id was skipped as
\* unchanged.
C1_Idempotent ==
    (pc = "done" /\ steady) =>
       /\ writes = 0
       /\ \A i \in 1..Len(log_lines) :
             MatchesId(log_lines[i].file) =>
                log_lines[i].tag = "SKIPPED (no changes)"

\* C3: an update_one on a document that exists leaves every stored function
\* entry that equals the fresh extraction, or whose name the fresh extraction
\* lacks, present with the same value.
C3_Additive ==
    [][(/\ writes' = writes + 1
        /\ card_id \in DOMAIN store
        /\ "functions" \in DOMAIN store[card_id]) =>
         \A n \in DOMAIN store[card_id]["functions"].entries :
            (\/ n \notin DOMAIN Candidate.functions
             \/ Candidate.functions[n] = store[card_id]["functions"].entries[n]) =>
               /\ n \in DOMAIN store'[card_id]["functions"].entries
               /\ store'[card_id]["functions"].entries[n]
                     = store[card_id]["functions"].entries[n]]_vars

\* The tags of a pass in which find_one returned.
FoundTags == {"INSERTED", "UPDATED", "SKIPPED (no changes)", "ERROR DB upsert"}

\* C5 as stated: for a file with a valid id whose find_one returned, the
\* outcome is inserted iff no document was found, updated iff one was found
\* and update_fields is not empty, skipped iff one was found and
\* update_fields is empty; one update_one call for inserted and updated, none
\* for skipped.
C5_Outcome ==
    (PassEnded /\ LastLine.tag \in FoundTags) =>
       /\ LastLine.tag = "INSERTED" <=> is_new
       /\ LastLine.tag = "UPDATED" <=> (~is_new /\ DOMAIN update_fields # {})
       /\ LastLine.tag = "SKIPPED (no changes)" <=>
             (~is_new /\ DOMAIN update_fields = {})
       /\ LastLine.tag \in {"INSERTED", "UPDATED"} => calls.update = 1
       /\ LastLine.tag = "SKIPPED (no changes)" => calls.update = 0

\* C5 amended: the same, for inserted and updated provided the update_one
\* call returned; when it raised the outcome is an error, after one call.
C5_OutcomeAmended ==
    (PassEnded /\ LastLine.tag \in FoundTags) =>
       /\ LastLine.tag = "INSERTED" <=>
             (is_new /\ LastLine.tag # "ERROR DB upsert")
       /\ LastLine.tag = "UPDATED" <=>
             (~is_new /\ DOMAIN update_fields # {}
              /\ LastLine.tag # "ERROR DB upsert")
       /\ LastLine.tag = "SKIPPED (no changes)" <=>
             (~is_new /\ DOMAIN update_fields = {})
       /\ LastLine.tag \in {"INSERTED", "UPDATED", "ERROR DB upsert"} =>
             (calls.update = 1 /\ DOMAIN update_fields # {})
       /\ LastLine.tag = "SKIPPED (no changes)" => calls.update = 0

\* A batch has logged an insert, and the pass that ended last found a
\* document and made its one update_one call.
C5_Witness ==
    /\ PassEnded
    /\ LastLine.tag = "UPDATED"
    /\ ~is_new
    /\ calls.update = 1
    /\ \E i \in 1..Len(log_lines) : log_lines[i].tag = "INSERTED"

\* C6: a candidate file whose name does not match the id pattern is logged
\* as skipped, and its pass of the loop makes no store call.
C6_FilenameGate ==
    /\ \A i \in 1..Len(log_lines) :
          ~MatchesId(log_lines[i].file) => log_lines[i].tag = "SKIP (no id)"
    /\ (PassEnded /\ ~MatchesId(LastLine.file)) => calls = NoCalls

ErrorTags == {"ERROR reading", "ERROR DB find", "ERROR DB upsert"}

\* C7: every failure is counted and logged inside the pass of the loop it
\* happens in, and no exception leaves the loop.
C7_NoEscape ==
    /\ pc # "aborted"
    /\ errors = Cardinality({i \in 1..Len(log_lines) : log_lines[i].tag \in ErrorTags})

(* ------------------------- extract_names, stated ----------------------- *)
\* The texts of the comment lines that come before the first line that is
\* neither a comment nor blank.
RECURSIVE LeadingComments(_)
LeadingComments(t) ==
    IF t = <<>> \/ Head(t).kind \in {"code", "func"} THEN <<>>
    ELSE IF Head(t).kind = "comment"
         THEN <<Head(t).text>> \o LeadingComments(Tail(t))
         ELSE LeadingComments(Tail(t))

NthOrEmpty(q, n) == IF n <= Len(q) THEN q[n] ELSE ""

\* C8: the names are the first two leading comment lines, in order, the
\* empty string where there is none; comment lines after the first line that
\* is neither a comment nor blank supply no name.
C8_Names ==
    nm_out # <<>> =>
       nm_out = <<NthOrEmpty(LeadingComments(nm_in), 1),
                  NthOrEmpty(LeadingComments(nm_in), 2)>>

====
